---- MODULE Spec2Model ----
(***************************************************************************)
(* A model of Writing3D's timelines, clickable links, object position      *)
(* triggers and asset caches (pyw3d/timeline.py, pyw3d/objects_w3dlink.py, *)
(* pyw3d/activators/triggers/object_triggers.py,                           *)
(* pyw3d/objects_utility.py).                                              *)
(*                                                                         *)
(* The sub-systems share the module; each has its own specification and   *)
(* leaves the variables of the others alone:                               *)
(*   SpecTimeline     building a W3DTimeline (constructor, add, fromXML)    *)
(*   SpecTimelineRun  one compiled timeline running in the game engine      *)
(*   SpecLink         a compiled W3DLink receiving clicks                   *)
(*   SpecTrigger      a compiled BlenderObjectPositionTrigger being polled  *)
(*   SpecActivators   a link or a position trigger                          *)
(*   SpecContain      the per-object containment test alone                 *)
(*   SpecLinkXML      a Link document read (fromXML) and written (toXML)    *)
(*   SpecTimelineXML  a Timeline document read and written                  *)
(*   SpecLinkRecord   a W3DLink record written (toXML) and read back        *)
(*   SpecXML          a Link document or a Timeline document                *)
(*   SpecBuild        one record through blend, link and write              *)
(*   SpecPoll         two position triggers polled within one frame         *)
(*   SpecAssets       models and materials generated through the caches     *)
(* Classes and functions the sources import but do not contain            *)
(* (SortedList, BlenderTimeline, BlenderTrigger, BlenderClickTrigger,      *)
(* text2bool, bool2text) are modelled from the design document and marked  *)
(* where they are defined.                                                 *)
(***************************************************************************)
EXTENDS Integers, Sequences, FiniteSets, TLC

VARIABLES
    tl_actions,   \* W3DTimeline["actions"]: sequence of [time, action]
    tl_last,      \* what the last operation on the timeline did
    run,          \* the compiled timeline at run time
    link,         \* the W3DLink record and its compiled click trigger
    trig,         \* the position trigger: configuration and state holder
    probe,        \* inputs and result of one containment evaluation
    xml,          \* a document, the record read from it, the document written
    build,        \* one record going through blend, link and write
    poll,         \* two position triggers polled within one frame
    assets        \* the model and material caches and the host's data

vars == <<tl_actions, tl_last, run, link, trig, probe, xml, build, poll,
          assets>>

(***************************************************************************)
(* Bounds of the model.                                                    *)
(***************************************************************************)
MaxLen == 3        \* pairs in one timeline
MaxDigit == 3      \* digits 0..MaxDigit appear in a seconds-time attribute
MaxNodes == 2      \* TimedActions nodes in one Timeline document
MaxChildren == 2   \* actions below one TimedActions node
NegTimes == 1      \* times passed to the constructor or add start at -NegTimes
MaxRuns == 2       \* runs of one compiled timeline

Times == (0 - NegTimes)..MaxDigit

(***************************************************************************)
(* pyw3d.structs.SortedList, which is not among the source files: a list   *)
(* kept in non-decreasing order of the start time, a new element going     *)
(* behind the elements of equal time.                                      *)
(***************************************************************************)
SortedListAdd(s, x) ==
    LET k == Cardinality({i \in 1..Len(s) : s[i].time <= x.time})
    IN  SubSeq(s, 1, k) \o <<x>> \o SubSeq(s, k + 1, Len(s))

RECURSIVE SortedListInit(_)
SortedListInit(items) ==
    IF items = <<>> THEN <<>>
    ELSE SortedListAdd(SortedListInit(SubSeq(items, 1, Len(items) - 1)),
                       items[Len(items)])

(***************************************************************************)
(* argument_validators["actions"]: every item is a pair whose start time   *)
(* passes IsNumeric(min_value=0).  W3DFeature applies the validator when   *)
(* the key is assigned.                                                    *)
(***************************************************************************)
ValidActions(items) == \A i \in 1..Len(items) : items[i].time >= 0

\* The pairs of a list of start times; the action of the i-th pair inserted
\* after `base` earlier ones is named base + i.  A pair holds, besides the
\* value of its start time, the sign of the float (-0.0 is 0 with a sign).
PairsFrom(times, base) ==
    [i \in 1..Len(times) |->
        [time |-> times[i], action |-> base + i, minus |-> times[i] < 0]]

\* No timeline exists yet.
NoOp == [op |-> "none", err |-> "none", negative |-> FALSE, changed |-> FALSE]

\* W3DTimeline.__init__ without the validation: the actions key holds a
\* SortedList of what was passed.
WrapUnsorted(items) == items

WrapActions(items) == SortedListInit(items)

\* W3DTimeline(actions=[...]): the timeline of this behaviour is made
\* once, by the constructor or by fromXML; a raised error leaves none.
TLConstruct(times) ==
    LET items == PairsFrom(times, 0)
    IN  /\ tl_last.op = "none"
        /\ IF ValidActions(items)
           THEN /\ tl_actions' = WrapActions(items)
                /\ tl_last' = [op |-> "construct", err |-> "none",
                               negative |-> FALSE, changed |-> TRUE]
           ELSE /\ tl_actions' = tl_actions
                /\ tl_last' = [op |-> "construct", err |-> "InvalidArgument",
                               negative |-> TRUE, changed |-> FALSE]
        /\ UNCHANGED <<run, link, trig, probe, xml, build, poll, assets>>

\* timeline["actions"].add((time, action)): the collection is reached with
\* __getitem__, so no validator of W3DTimeline sees the pair.
TLAdd(t) ==
    /\ tl_last.op # "none"
    /\ tl_last.err = "none"
    /\ Len(tl_actions) < MaxLen
    /\ tl_actions' = SortedListAdd(tl_actions,
                        [time |-> t, action |-> Len(tl_actions) + 1,
                         minus |-> t < 0])
    /\ tl_last' = [op |-> "add", err |-> "none", negative |-> t < 0,
                   changed |-> TRUE]
    /\ UNCHANGED <<run, link, trig, probe, xml, build, poll, assets>>

(***************************************************************************)
(* A Timeline node: whether it has a name attribute, and its TimedActions  *)
(* nodes in document order, each with the text of its seconds-time         *)
(* attribute (a sequence of characters, <<>> when the attribute is         *)
(* missing) and the number of its children.                                *)
(***************************************************************************)
Digit(d) == [kind |-> "digit", value |-> d]
Minus == [kind |-> "minus", value |-> 0]
\* A letter that is in no spelling of a number, such as "x": not the "e" of
\* an exponent, and none of the letters of "nan", "inf" and "infinity".
Letter == [kind |-> "letter", value |-> 0]
Dot == [kind |-> "dot", value |-> 0]
\* The "e" or "E" in front of an exponent
Exp == [kind |-> "exp", value |-> 0]

Digits == {Digit(d) : d \in 0..MaxDigit}

Chars == {Minus, Letter} \cup Digits

Texts == {<<>>} \cup {<<c>> : c \in Chars}
            \cup {<<Minus, d>> : d \in Digits}
            \cup {<<Digit(0), Dot>>, <<Dot, Digit(0)>>}
            \cup {<<Digit(1), Exp, Digit(0)>>}

\* The place of the first character of a kind in a text, Len(text) + 1
\* when it has none
RECURSIVE FirstAt(_, _)
FirstAt(text, kind) ==
    IF text = <<>> \/ text[1].kind = kind THEN 1
    ELSE 1 + FirstAt(Tail(text), kind)

\* How float reads a text: a sign, the digits before the dot, the digits
\* behind it, and what stands behind the exponent mark, if there is one.
NumberParts(text) ==
    LET mark == FirstAt(text, "exp")
        mantissa == SubSeq(text, 1, mark - 1)
        dot == FirstAt(mantissa, "dot")
        signed == mantissa # <<>> /\ mantissa[1].kind = "minus"
    IN  [minus |-> signed,
         whole |-> SubSeq(mantissa, IF signed THEN 2 ELSE 1, dot - 1),
         fraction |-> SubSeq(mantissa, dot + 1, Len(mantissa)),
         marked |-> mark <= Len(text),
         exponent |-> SubSeq(text, mark + 1, Len(text))]

RECURSIVE DigitsValue(_)
DigitsValue(ds) ==
    IF ds = <<>> THEN 0
    ELSE 10 * DigitsValue(SubSeq(ds, 1, Len(ds) - 1)) + ds[Len(ds)].value

\* Whether int(text) returns: an optional sign, then digits.
IsInt(text) ==
    /\ Len(text) >= 1
    /\ \/ \A i \in 1..Len(text) : text[i].kind = "digit"
       \/ /\ text[1].kind = "minus"
          /\ Len(text) >= 2
          /\ \A i \in 2..Len(text) : text[i].kind = "digit"

\* int(text) of a text that IsInt
PyInt(text) ==
    IF text[1].kind = "minus" THEN 0 - DigitsValue(Tail(text))
    ELSE DigitsValue(text)

\* Whether float(text) returns: an optional sign, then digits with at most
\* one dot among them, before them or behind them ("1.", ".1", "-1.0"), at
\* least one digit, and then, if anything, an exponent mark and a signed
\* whole number ("1e1", "1E-1"; not "1e", "e1" or "1e1.0").  The words float
\* takes too ("nan", "inf", "infinity"), a leading "+", blanks around the
\* number and "_" between digits are not written in this alphabet.
IsNumber(text) ==
    LET parts == NumberParts(text)
    IN  /\ \A i \in 1..Len(parts.whole) : parts.whole[i].kind = "digit"
        /\ \A i \in 1..Len(parts.fraction) :
              parts.fraction[i].kind = "digit"
        /\ Len(parts.whole) + Len(parts.fraction) >= 1
        /\ parts.marked => IsInt(parts.exponent)

RECURSIVE Pow10(_)
Pow10(n) == IF n = 0 THEN 1 ELSE 10 * Pow10(n - 1)

\* float(text) of a text that IsNumber and whose value is whole: the digits
\* of the mantissa, moved by the exponent less the length of the fraction.
Float(text) ==
    LET parts == NumberParts(text)
        digits == DigitsValue(parts.whole \o parts.fraction)
        shift == (IF parts.marked THEN PyInt(parts.exponent) ELSE 0)
                    - Len(parts.fraction)
        size == IF shift >= 0 THEN digits * Pow10(shift)
                ELSE digits \div Pow10(0 - shift)
    IN  IF parts.minus THEN 0 - size ELSE size

\* The sign of float(text): float("-0") is -0.0
FloatMinus(text) == text[1].kind = "minus"

TimedNodes == [text : Texts, children : 0..MaxChildren]

Documents ==
    [name : BOOLEAN,
     nodes : UNION {[1..n -> TimedNodes] : n \in 0..MaxNodes}]

\* What fromXML gives its caller: a timeline, or the error it raises.
Raised(err) == [err |-> err, actions |-> <<>>]

Returned(actions) == [err |-> "none", actions |-> actions]

\* new_timeline["actions"].add((action_time, W3DAction.fromXML(child))) for
\* n children in document order; the action of a pair is named by its
\* place in the order of insertion.
RECURSIVE AddEach(_, _, _, _)
AddEach(acc, t, minus, n) ==
    IF n = 0 THEN acc
    ELSE AddEach(
            SortedListAdd(acc, [time |-> t, action |-> Len(acc) + 1,
                                minus |-> minus]),
            t, minus, n - 1)

\* for child in timed_action.getchildren(): ...  Element.getchildren is a
\* method of the Python versions up to 3.8 and of none after; where it is
\* missing the call raises AttributeError, whatever the children are.
AddChildren(acc, t, minus, n, getchildren) ==
    IF getchildren THEN Returned(AddEach(acc, t, minus, n))
    ELSE Raised("AttributeError")

\* What attrib[key] followed by int() or float() raises: the attribute is
\* missing, or its text is refused.
ReadAttribute(text, accepted) ==
    IF text = <<>> THEN "KeyError"
    ELSE IF ~accepted THEN "ValueError"
    ELSE "none"

\* except (KeyError, ValueError): raise BadW3DXML(...)
CaughtErrors == {"KeyError", "ValueError"}

BadAttribute(err) == IF err \in CaughtErrors THEN "BadW3DXML" ELSE err

\* The loop over findall("TimedActions") from node k on: the list built,
\* BadW3DXML at the first seconds-time that float() refuses, or the error
\* of the loop over the children.
RECURSIVE ReadNodes(_, _, _, _)
ReadNodes(nodes, k, acc, getchildren) ==
    IF k > Len(nodes) THEN Returned(acc)
    ELSE IF ReadAttribute(nodes[k].text, IsNumber(nodes[k].text)) # "none"
    THEN Raised(BadAttribute(
            ReadAttribute(nodes[k].text, IsNumber(nodes[k].text))))
    ELSE LET added == AddChildren(acc, Float(nodes[k].text),
                                  FloatMinus(nodes[k].text),
                                  nodes[k].children, getchildren)
         IN  IF added.err # "none" THEN added
             ELSE ReadNodes(nodes, k + 1, added.actions, getchildren)

\* Whether fromXML reaches a child of a node with a negative seconds-time:
\* the name is read first, and without one no node is read.
DocNegative(doc, getchildren) ==
    /\ doc.name
    /\ getchildren
    /\ \E k \in 1..Len(doc.nodes) :
          /\ \A j \in 1..k : IsNumber(doc.nodes[j].text)
          /\ Float(doc.nodes[k].text) < 0
          /\ doc.nodes[k].children > 0

\* W3DTimeline.fromXML(timeline_root)
FromXMLResult(doc, getchildren) ==
    IF ~doc.name THEN Raised("BadW3DXML")
    ELSE ReadNodes(doc.nodes, 1, WrapActions(<<>>), getchildren)

TLFromXML(doc, getchildren) ==
    LET r == FromXMLResult(doc, getchildren)
    IN  /\ tl_last.op = "none"
        /\ IF r.err # "none"
           THEN /\ tl_actions' = tl_actions
                /\ tl_last' = [op |-> "fromXML", err |-> r.err,
                               negative |-> FALSE, changed |-> FALSE]
           ELSE /\ Len(r.actions) <= MaxLen
                /\ tl_actions' = r.actions
                /\ tl_last' = [op |-> "fromXML", err |-> "none",
                               negative |-> DocNegative(doc, getchildren),
                               changed |-> TRUE]
        /\ UNCHANGED <<run, link, trig, probe, xml, build, poll, assets>>

TimeLists == UNION {[1..n -> Times] : n \in 0..MaxLen}

Idle == [on |-> FALSE]

InitTimeline ==
    /\ assets = Idle
    /\ tl_actions = <<>>
    /\ tl_last = NoOp
    /\ xml = Idle
    /\ build = Idle
    /\ poll = Idle
    /\ run = Idle
    /\ link = Idle
    /\ trig = Idle
    /\ probe = Idle

NextTimeline ==
    \/ /\ tl_last.op = "none"
       /\ \E times \in TimeLists : TLConstruct(times)
    \/ \E t \in Times : TLAdd(t)
    \/ /\ tl_last.op = "none"
       /\ \E doc \in Documents, getchildren \in BOOLEAN :
             TLFromXML(doc, getchildren)

SpecTimeline == InitTimeline /\ [][NextTimeline]_vars

(***************************************************************************)
(* The compiled timeline at run time.  W3DTimeline.blend hands the name,   *)
(* the actions and start_immediately to BlenderTimeline, which is not      *)
(* among the source files: a state holder with a status, a clock started   *)
(* with the timeline, and for each pair a condition "elapsed >= time"       *)
(* wired to the pair's action, which fires once in a run.                  *)
(***************************************************************************)
MaxElapsed == 4    \* seconds one run is followed for
MaxStep == 2       \* seconds one tick may take

NotFired == [n |-> 0, from |-> 0, at |-> 0, first |-> FALSE]

\* W3DTimeline.blend()
TLBlend(actions, start_immediately) ==
    [on |-> TRUE,
     times |-> [i \in 1..Len(actions) |-> actions[i].time],
     status |-> IF start_immediately THEN "Start" ELSE "Stop",
     elapsed |-> 0,
     ticked |-> FALSE,
     runs |-> IF start_immediately THEN 1 ELSE 0,
     fired |-> [i \in 1..Len(actions) |-> NotFired]]

\* A condition that holds on every tick from the pair's time on.
DueLevel(t, e, n) == t <= e

\* The condition of one pair at elapsed time e, the pair having fired n
\* times in this run.
Due(t, e, n) == t <= e /\ n = 0

\* One frame of the game engine while the timeline runs.
RunTick(dt) ==
    /\ run.on
    /\ run.status = "Start"
    /\ run.elapsed + dt <= MaxElapsed
    /\ run' = [run EXCEPT
                 !.elapsed = run.elapsed + dt,
                 !.ticked = TRUE,
                 !.fired = [i \in 1..Len(run.times) |->
                     IF Due(run.times[i], run.elapsed + dt, run.fired[i].n)
                     THEN [n |-> run.fired[i].n + 1, from |-> run.elapsed,
                           at |-> run.elapsed + dt, first |-> ~run.ticked]
                     ELSE run.fired[i]]]
    /\ UNCHANGED <<tl_actions, tl_last, link, trig, probe, xml, build,
                   poll, assets>>

\* A TimelineAction starts (or restarts) the timeline: a new run.
RunStart ==
    /\ run.on
    /\ run.runs < MaxRuns
    /\ run' = [run EXCEPT
                 !.status = "Start",
                 !.elapsed = 0,
                 !.ticked = FALSE,
                 !.runs = run.runs + 1,
                 !.fired = [i \in 1..Len(run.times) |-> NotFired]]
    /\ UNCHANGED <<tl_actions, tl_last, link, trig, probe, xml, build,
                   poll, assets>>

\* A TimelineAction stops the timeline.
RunStop ==
    /\ run.on
    /\ run.status = "Start"
    /\ run' = [run EXCEPT !.status = "Stop"]
    /\ UNCHANGED <<tl_actions, tl_last, link, trig, probe, xml, build,
                   poll, assets>>

\* The timelines W3DTimeline can hold after a construction that passed
\* the validators.
InitTimelineRun ==
    /\ assets = Idle
    /\ tl_actions = <<>>
    /\ tl_last = NoOp
    /\ xml = Idle
    /\ build = Idle
    /\ poll = Idle
    /\ link = Idle
    /\ trig = Idle
    /\ probe = Idle
    /\ \E times \in TimeLists, start_immediately \in BOOLEAN :
          /\ ValidActions(PairsFrom(times, 0))
          /\ run = TLBlend(WrapActions(PairsFrom(times, 0)), start_immediately)

NextTimelineRun ==
    \/ \E dt \in 0..MaxStep : RunTick(dt)
    \/ RunStart
    \/ RunStop

SpecTimelineRun == InitTimelineRun /\ [][NextTimelineRun]_vars

(***************************************************************************)
(* W3DLink.  A record holds enabled, remain_enabled, reset and the actions *)
(* mapping; an action list is named by the click count it is bound to, so  *)
(* the mapping is the set of its keys (AnyClicks is the negative key of    *)
(* "any click").                                                           *)
(***************************************************************************)
MaxKey == 3        \* click counts 0..MaxKey may have an action list
MaxReset == 3      \* reset is drawn from -1..MaxReset
MaxCount == 4      \* recognized clicks followed on one link

AnyClicks == 0 - 1

LinkKeys == {AnyClicks} \cup (0..MaxKey)

LinkRecords ==
    [enabled : BOOLEAN, remain_enabled : BOOLEAN,
     reset : (0 - 1)..MaxReset, actions : SUBSET LinkKeys]

\* blend() without its reset_clicks argument: BlenderClickTrigger's default.
ResetClicksDefault(rec) == 0 - 1

\* blend(): reset_clicks=self['reset']
ResetClicks(rec) == rec.reset

\* blend(): remain_enabled=self["remain_enabled"]
RemainEnabled(rec) == rec.remain_enabled

NoClick == [kind |-> "none", before |-> 0, after |-> 0, dispatched |-> <<>>]

\* W3DLink.__init__ (num_clicks = 0) and W3DLink.blend: the arguments
\* BlenderClickTrigger is made with, and its state holder.
LinkBlend(rec) ==
    [on |-> TRUE,
     rec |-> rec,
     actions |-> rec.actions,
     enabled |-> rec.enabled,
     remain_enabled |-> RemainEnabled(rec),
     reset_clicks |-> ResetClicks(rec),
     num_clicks |-> 0,
     nclicks |-> 0,
     since |-> 0,
     last |-> NoClick]

(***************************************************************************)
(* BlenderClickTrigger is not among the source files.  On a recognized     *)
(* click of an enabled link the count goes up by one, or back to 0 when it *)
(* reaches reset_clicks; the list bound to the new count is dispatched, or *)
(* else the list of "any click"; a link that does not remain enabled is    *)
(* disabled by its first dispatch.                                         *)
(***************************************************************************)
NextCount(count, reset) ==
    IF count + 1 = reset /\ reset >= 0 THEN 0 ELSE count + 1

\* A lookup with the count before the click.
LookupOld(actions, old, new) ==
    IF old \in actions THEN <<old>>
    ELSE IF AnyClicks \in actions THEN <<AnyClicks>>
    ELSE <<>>

\* The lists dispatched for one click that took the count from old to new.
Lookup(actions, old, new) ==
    IF new \in actions THEN <<new>>
    ELSE IF AnyClicks \in actions THEN <<AnyClicks>>
    ELSE <<>>

LinkClick ==
    /\ link.on
    /\ link.nclicks < MaxCount
    /\ IF link.enabled
       THEN LET new == NextCount(link.num_clicks, link.reset_clicks)
                out == Lookup(link.actions, link.num_clicks, new)
            IN  link' = [link EXCEPT
                    !.num_clicks = new,
                    !.nclicks = link.nclicks + 1,
                    !.since = IF out = <<>> THEN link.since ELSE link.since + 1,
                    !.enabled = IF out # <<>> /\ ~link.remain_enabled
                                THEN FALSE ELSE link.enabled,
                    !.last = [kind |-> "enabled", before |-> link.num_clicks,
                              after |-> new, dispatched |-> out]]
       ELSE link' = [link EXCEPT
                    !.last = [kind |-> "disabled", before |-> link.num_clicks,
                              after |-> link.num_clicks, dispatched |-> <<>>]]
    /\ UNCHANGED <<tl_actions, tl_last, run, trig, probe, xml, build,
                   poll, assets>>

\* An action of the project enables or disables the link.
LinkSetEnabled(b) ==
    /\ link.on
    /\ link.enabled # b
    /\ link' = [link EXCEPT !.enabled = b,
                            !.since = IF b THEN 0 ELSE link.since]
    /\ UNCHANGED <<tl_actions, tl_last, run, trig, probe, xml, build,
                   poll, assets>>

InitLink ==
    /\ assets = Idle
    /\ tl_actions = <<>>
    /\ tl_last = NoOp
    /\ xml = Idle
    /\ build = Idle
    /\ poll = Idle
    /\ run = Idle
    /\ trig = Idle
    /\ probe = Idle
    /\ \E rec \in LinkRecords : link = LinkBlend(rec)

NextLink ==
    \/ LinkClick
    \/ \E b \in BOOLEAN : LinkSetEnabled(b)

SpecLink == InitLink /\ [][NextLink]_vars

(***************************************************************************)
(* BlenderObjectPositionTrigger.generate_detection_logic: the text of      *)
(* detect_event, evaluated as Python evaluates it.  A Python value is      *)
(* "True" or "False"; an evaluation that raises gives the error's name.    *)
(***************************************************************************)
MaxCoord == 2      \* coordinates 0..MaxCoord in the containment probe

Axes == 1..3

Coords == [Axes -> 0..MaxCoord]

Directions == {"Inside", "Outside"}

PyBool(b) == IF b THEN "True" ELSE "False"

Min(a, b) == IF a <= b THEN a ELSE b

Max(a, b) == IF a >= b THEN a ELSE b

\* corners = zip(corner1, corner2): corners[i] is the pair of axis i
Corners(box) == [i \in Axes |-> <<box.corner1[i], box.corner2[i]>>]

\* The names bound where the loop body is evaluated: detect_event binds
\* scene, own, corners, all_objects, in_region, object_ and position; no
\* statement of the generated text binds i.
BoundAxis == {}

\* ("", "not ")[direction == "Inside"](position[i] < min(corners[i]) or
\*                                    position[i] > max(corners[i]))
ObjectTest(box, position) ==
    IF BoundAxis = {} THEN "NameError"
    ELSE LET i == CHOOSE a \in BoundAxis : TRUE
             corners == Corners(box)
             outside == \/ position[i] < Min(corners[i][1], corners[i][2])
                        \/ position[i] > Max(corners[i][1], corners[i][2])
         IN  PyBool(IF box.direction = "Inside" THEN ~outside ELSE outside)

\* The predicate of the design: outside if some axis is out of bounds.
RefOutside(c1, c2, position) ==
    \E i \in Axes : \/ position[i] < Min(c1[i], c2[i])
                    \/ position[i] > Max(c1[i], c2[i])

RefContained(box, position) ==
    IF box.direction = "Inside"
    THEN ~RefOutside(box.corner1, box.corner2, position)
    ELSE RefOutside(box.corner1, box.corner2, position)

\* One evaluation of the per-object test.
Probe ==
    /\ probe.on
    /\ ~probe.done
    /\ probe' = [probe EXCEPT !.done = TRUE,
                              !.result = ObjectTest(probe.box, probe.position)]
    /\ UNCHANGED <<tl_actions, tl_last, run, link, trig, xml, build,
                   poll, assets>>

InitContain ==
    /\ assets = Idle
    /\ tl_actions = <<>>
    /\ tl_last = NoOp
    /\ xml = Idle
    /\ build = Idle
    /\ poll = Idle
    /\ run = Idle
    /\ link = Idle
    /\ trig = Idle
    /\ \E c1 \in Coords, c2 \in Coords, p \in Coords, d \in Directions :
          probe = [on |-> TRUE, done |-> FALSE, result |-> "None",
                   box |-> [corner1 |-> c1, corner2 |-> c2, direction |-> d],
                   position |-> p]

NextContain == Probe

SpecContain == InitContain /\ [][NextContain]_vars

(***************************************************************************)
(* The position trigger polled by the game engine.                         *)
(***************************************************************************)
MaxObjects == 2    \* objects of the scene, named 1..MaxObjects
MaxDuration == 2   \* duration is drawn from 0..MaxDuration
BoxSize == 1       \* the box of a polled trigger spans 0..BoxSize

Far == BoxSize + 1

\* Where an object may be at a tick: in the box, or out of it along one axis.
TickPoints == {<<0, 0, 0>>, <<Far, 0, 0>>, <<0, Far, 0>>, <<0, 0, Far>>}

\* An object that is not in scene.objects at a tick has no position.
Absent == <<>>

TickPlaces == TickPoints \cup {Absent}

\* The objects a trigger names; detect_event looks at no other object.
Tracked(objects) == {objects[k] : k \in 1..Len(objects)}

\* Whether scene.objects has every object the trigger names
AllResolved(objects, positions) ==
    \A k \in 1..Len(objects) : positions[objects[k]] # Absent

TrigBoxes ==
    {[corner1 |-> <<0, 0, 0>>, corner2 |-> <<BoxSize, BoxSize, BoxSize>>,
      direction |-> d] : d \in Directions}
    \cup {[corner1 |-> <<BoxSize, BoxSize, BoxSize>>, corner2 |-> <<0, 0, 0>>,
           direction |-> d] : d \in Directions}

\* objects_string: a Python list of distinct object names
ObjectLists ==
    {objs \in UNION {[1..n -> 1..MaxObjects] : n \in 0..MaxObjects} :
        \A i, j \in 1..Len(objs) : i # j => objs[i] # objs[j]}

TrigArgs ==
    [box : TrigBoxes, objects : ObjectLists, duration : 0..MaxDuration,
     enable_immediately : BOOLEAN, remain_enabled : BOOLEAN,
     detect_any : BOOLEAN]

\* The loop over all_objects from the k-th object on.  Python's "or" and
\* "and" evaluate their right operand only when the left one does not
\* decide the result.
RECURSIVE DetectLoop(_, _, _, _)
DetectLoop(self, positions, k, in_region) ==
    IF k > Len(self.objects) THEN in_region
    ELSE IF self.detect_any /\ in_region = "True"
         THEN DetectLoop(self, positions, k + 1, "True")
    ELSE IF ~self.detect_any /\ in_region = "False"
         THEN DetectLoop(self, positions, k + 1, "False")
    ELSE LET test == ObjectTest(self.box, positions[self.objects[k]])
         IN  IF test \notin {"True", "False"} THEN test
             ELSE DetectLoop(self, positions, k + 1, test)

\* A fold that starts from False whatever detect_any is.
FoldStartFalse(detect_any) == PyBool(FALSE)

\* "    in_region = {}".format(not self.detect_any)
FoldStart(detect_any) == PyBool(~detect_any)

\* in_region after the loop of detect_event, or the error that ends the
\* call.  "corners = {}".format(zip(...)) is a list of pairs where zip
\* returns a list; where zip returns an iterator the line holds the
\* iterator's repr and the module does not compile.  The names of
\* objects_string are all looked up in scene.objects before the loop.
InRegion(self, zip_is_list, positions) ==
    IF ~zip_is_list THEN "SyntaxError"
    ELSE IF ~AllResolved(self.objects, positions) THEN "KeyError"
    ELSE DetectLoop(self, positions, 1, FoldStart(self.detect_any))

\* The aggregate of the design over the tracked objects.
RefDetect(args, positions) ==
    IF args.detect_any
    THEN \E k \in 1..Len(args.objects) :
            RefContained(args.box, positions[args.objects[k]])
    ELSE \A k \in 1..Len(args.objects) :
            RefContained(args.box, positions[args.objects[k]])

\* __init__ leaving remain_enabled at BlenderTrigger's default.
InitRemainDefault(args) == TRUE

\* __init__: remain_enabled=remain_enabled
InitRemainEnabled(args) == args.remain_enabled

\* The guard of detect_event without own['enabled'].
ShouldStartAnyway(in_region, enabled, status) ==
    in_region = "True" /\ status = "Stop"

\* if (in_region and own['enabled'] and own['status'] == 'Stop'):
ShouldStart(in_region, enabled, status) ==
    in_region = "True" /\ enabled /\ status = "Stop"

\* A detect_event that ends every activation cycle it does not start.
DetectEventResets(own, in_region) ==
    IF ShouldStart(in_region, own.enabled, own.status)
    THEN [own EXCEPT !.status = "Start"]
    ELSE [own EXCEPT !.status = "Stop"]

\* What detect_event leaves in the properties of its owner: the one write
\* is own['status'] = 'Start', under the guard; a call that raises has
\* written nothing.
DetectEvent(own, in_region) ==
    IF ShouldStart(in_region, own.enabled, own.status)
    THEN [own EXCEPT !.status = "Start"]
    ELSE own

NoTick == [kind |-> "none", enabled |-> FALSE, status |-> "Stop",
           in_region |-> "None", ref |-> FALSE, after |-> "Stop",
           tracked |-> 0, streak |-> 0, resolved |-> TRUE]

\* BlenderObjectPositionTrigger.__init__: duration is neither kept nor
\* handed to BlenderTrigger.  The state holder starts with status Stop.
TrigInit(args, zip_is_list) ==
    [on |-> TRUE,
     args |-> args,
     zip_is_list |-> zip_is_list,
     box |-> args.box,
     objects |-> args.objects,
     detect_any |-> args.detect_any,
     remain_enabled |-> InitRemainEnabled(args),
     enabled |-> args.enable_immediately,
     status |-> "Stop",
     streak |-> 0,
     since |-> 0,
     disables |-> 0,
     last |-> NoTick]

\* One call of detect_event(cont), the objects the trigger names being at
\* `positions`.
TrigTick(positions) ==
    /\ trig.on
    /\ LET self == [box |-> trig.box, objects |-> trig.objects,
                    detect_any |-> trig.detect_any]
           in_region == InRegion(self, trig.zip_is_list, positions)
           start == ShouldStart(in_region, trig.enabled, trig.status)
           own == DetectEvent([enabled |-> trig.enabled,
                               status |-> trig.status], in_region)
           after == own.status
           streak == IF in_region = "True"
                     THEN Min(trig.streak + 1, MaxDuration) ELSE 0
       IN  trig' = [trig EXCEPT
                !.enabled = own.enabled,
                !.status = after,
                !.streak = streak,
                !.since = IF start THEN Min(trig.since + 1, 2) ELSE trig.since,
                !.last = [kind |-> "tick", enabled |-> trig.enabled,
                          status |-> trig.status, in_region |-> in_region,
                          ref |-> /\ AllResolved(trig.objects, positions)
                                  /\ RefDetect(trig.args, positions),
                          after |-> after, tracked |-> Len(trig.objects),
                          streak |-> streak,
                          resolved |->
                              AllResolved(trig.objects, positions)]]
    /\ UNCHANGED <<tl_actions, tl_last, run, link, probe, xml, build,
                   poll, assets>>

\* BlenderTrigger, which is not among the source files: the actions of an
\* activated trigger are dispatched, a trigger that does not remain
\* enabled is disabled, and the activation cycle ends.
TrigDispatch ==
    /\ trig.on
    /\ trig.status = "Start"
    /\ trig' = [trig EXCEPT
            !.status = "Stop",
            !.enabled = IF trig.remain_enabled THEN trig.enabled ELSE FALSE,
            !.disables = IF trig.remain_enabled \/ ~trig.enabled
                         THEN trig.disables ELSE Min(trig.disables + 1, 2),
            !.last = [trig.last EXCEPT !.kind = "dispatch"]]
    /\ UNCHANGED <<tl_actions, tl_last, run, link, probe, xml, build,
                   poll, assets>>

\* An action of the project enables or disables the trigger.
TrigSetEnabled(b) ==
    /\ trig.on
    /\ trig.enabled # b
    /\ trig' = [trig EXCEPT
            !.enabled = b,
            !.since = IF b THEN 0 ELSE trig.since,
            !.disables = IF b THEN 0 ELSE trig.disables,
            !.last = [trig.last EXCEPT !.kind = "set"]]
    /\ UNCHANGED <<tl_actions, tl_last, run, link, probe, xml, build,
                   poll, assets>>

InitTrigger ==
    /\ assets = Idle
    /\ tl_actions = <<>>
    /\ tl_last = NoOp
    /\ xml = Idle
    /\ build = Idle
    /\ poll = Idle
    /\ run = Idle
    /\ link = Idle
    /\ probe = Idle
    /\ \E args \in TrigArgs, zip_is_list \in BOOLEAN :
          trig = TrigInit(args, zip_is_list)

NextTrigger ==
    \/ /\ trig.on
       /\ \E positions \in [Tracked(trig.objects) -> TickPlaces] :
             TrigTick(positions)
    \/ TrigDispatch
    \/ \E b \in BOOLEAN : TrigSetEnabled(b)

SpecTrigger == InitTrigger /\ [][NextTrigger]_vars

\* A link or a trigger, whichever the behaviour starts with.
SpecActivators ==
    (InitLink \/ InitTrigger) /\ [][NextLink \/ NextTrigger]_vars

(***************************************************************************)
(* Link documents.  A LinkRoot has a Link child or not; the Link lists its *)
(* Actions nodes in document order.  An Actions node has a NumClicks node  *)
(* ("num": the text of its num_clicks attribute, <<>> when missing, and    *)
(* its reset attribute, "absent" when missing) or none ("any": no Clicks   *)
(* child, or a Clicks child holding Any), and a number of action children. *)
(* The Enabled and RemainEnabled children are present in every document.   *)
(***************************************************************************)
MaxClickDigit == 1     \* digits 0..MaxClickDigit appear in num_clicks
MaxLinkNodes == 2      \* Actions nodes in one Link
MaxLinkChildren == 1   \* actions below one Actions node

ClickDigits == {Digit(d) : d \in 0..MaxClickDigit}

ClickTexts ==
    {<<>>, <<Letter>>} \cup {<<c>> : c \in ClickDigits}
        \cup {<<Minus, c>> : c \in ClickDigits \ {Digit(0)}}

ResetTexts == {"absent", "true", "false"}

ActionsNodes ==
    [clicks : {"any"}, text : {<<>>}, reset : {"absent"},
     children : 0..MaxLinkChildren]
    \cup [clicks : {"num"}, text : ClickTexts, reset : ResetTexts,
          children : 0..MaxLinkChildren]

LinkDocuments ==
    {[link |-> FALSE, nodes |-> <<>>]}
    \cup [link : {TRUE},
          nodes : UNION {[1..n -> ActionsNodes] : n \in 0..MaxLinkNodes}]

\* xml_tools.text2bool and bool2text, which are not among the source files
Text2Bool(text) == text = "true"

Bool2Text(b) == IF b THEN "true" ELSE "false"

\* link["actions"][key].append(x) on a defaultdict(list); the dictionary is
\* held as the sequence of its entries in the order the keys were first
\* used, and Items gives the order in which it is iterated.
DictAppend(d, key, x) ==
    IF \E i \in 1..Len(d) : d[i].clicks = key
    THEN [i \in 1..Len(d) |->
            IF d[i].clicks = key
            THEN [d[i] EXCEPT !.list = Append(@, x)]
            ELSE d[i]]
    ELSE Append(d, [clicks |-> key, list |-> <<x>>])

\* The last reset-tagged node decides.
ResetLast(reset, num_clicks) == num_clicks

\* if num_clicks < link["reset"] or link["reset"] == -1:
\*     link["reset"] = num_clicks
ResetAfter(reset, num_clicks) ==
    IF num_clicks < reset \/ reset = 0 - 1 THEN num_clicks ELSE reset

\* W3DLink(): the default reset, an empty dictionary; n counts the actions
\* read, the action of the n-th child read is named n.
NewLink == [err |-> "none", reset |-> 0 - 1, actions |-> <<>>, n |-> 0]

RaisedLink(err) == [err |-> err, reset |-> 0 - 1, actions |-> <<>>, n |-> 0]

\* for child in actions_node: link["actions"][num_clicks].append(...)
RECURSIVE AppendChildren(_, _, _)
AppendChildren(acc, num_clicks, n) ==
    IF n = 0 THEN acc
    ELSE AppendChildren(
            [acc EXCEPT !.actions = DictAppend(@, num_clicks, acc.n + 1),
                        !.n = @ + 1],
            num_clicks, n - 1)

\* The body of the loop over findall("Actions") for one node.
ReadActionsNode(acc, node) ==
    IF node.clicks = "any"
    THEN AppendChildren(acc, 0 - 1, node.children)
    ELSE LET err == ReadAttribute(node.text, IsInt(node.text))
         IN  IF err # "none" THEN RaisedLink(BadAttribute(err))
             ELSE LET num_clicks == PyInt(node.text)
                      tagged == /\ node.reset # "absent"
                                /\ Text2Bool(node.reset)
                      reset == IF tagged
                               THEN ResetAfter(acc.reset, num_clicks)
                               ELSE acc.reset
                  IN  AppendChildren([acc EXCEPT !.reset = reset],
                                     num_clicks, node.children)

RECURSIVE ReadActions(_, _, _)
ReadActions(nodes, k, acc) ==
    IF k > Len(nodes) \/ acc.err # "none" THEN acc
    ELSE ReadActions(nodes, k + 1, ReadActionsNode(acc, nodes[k]))

\* W3DLink.fromXML(link_root)
FromXMLLink(doc) ==
    IF ~doc.link THEN RaisedLink("BadW3DXML")
    ELSE ReadActions(doc.nodes, 1, NewLink)

\* str(n) of an integer
RECURSIVE NatText(_)
NatText(n) ==
    IF n < 10 THEN <<Digit(n)>>
    ELSE Append(NatText(n \div 10), Digit(n % 10))

IntText(n) == IF n < 0 THEN <<Minus>> \o NatText(0 - n) ELSE NatText(n)

\* "reset": bool2text(self["reset"] == clicks)
ResetText(reset, clicks) == Bool2Text(reset = clicks)

\* The Actions nodes toXML writes for one entry of the dictionary: one node
\* for each action of the list, holding the action and its Clicks child.
WriteEntry(entry, reset) ==
    [i \in 1..Len(entry.list) |->
        IF entry.clicks < 0
        THEN [clicks |-> "any", text |-> <<>>, reset |-> "absent",
              actions |-> <<entry.list[i]>>]
        ELSE [clicks |-> "num", text |-> IntText(entry.clicks),
              reset |-> ResetText(reset, entry.clicks),
              actions |-> <<entry.list[i]>>]]

\* The slot a key takes in the hash table of a dictionary of the
\* interpreters before CPython 3.6 (a 64-bit build): the table of a
\* dictionary of up to five keys has 8 slots, and the probe goes from slot i
\* to slot 5 * i + perturb + 1.  perturb is the hash as an unsigned 64-bit
\* number at first and is shifted right by 5 bits at each step, so it is 0
\* from the 13th shift on; before that the signed number shifted in the
\* same way has the same last three bits.  With perturb 0 the probe goes
\* through all 8 slots.
RECURSIVE FreeSlot(_, _, _, _)
FreeSlot(i, perturb, shifts, taken) ==
    IF i \notin taken THEN i
    ELSE FreeSlot((5 * i + perturb + 1) % 8,
                  IF 5 * (shifts + 1) >= 64 THEN 0 ELSE perturb \div 32,
                  shifts + 1, taken)

\* The slots of the keys of a dictionary, in the order the keys were first
\* used; hash(n) of an integer is n, and hash(-1) is -2.
RECURSIVE Slots(_)
Slots(d) ==
    IF d = <<>> THEN <<>>
    ELSE LET before == Slots(SubSeq(d, 1, Len(d) - 1))
             key == d[Len(d)].clicks
             hash == IF key = 0 - 1 THEN 0 - 2 ELSE key
         IN  Append(before,
                    FreeSlot(hash % 8, hash, 0,
                             {before[i] : i \in 1..Len(before)}))

\* self["actions"].items(): the entries in the order the keys were first
\* used where the dictionary of the interpreter keeps that order (CPython
\* from 3.6 on), and in the order of their slots where it does not.
Items(d, ordered) ==
    IF ordered THEN d
    ELSE LET slots == Slots(d)
         IN  [i \in 1..Len(d) |->
                d[CHOOSE j \in 1..Len(d) :
                    Cardinality({m \in 1..Len(d) :
                                    slots[m] < slots[j]}) = i - 1]]

\* for clicks, action_list in self["actions"].items(): ...
RECURSIVE WriteEntries(_, _, _)
WriteEntries(d, k, reset) ==
    IF k > Len(d) THEN <<>>
    ELSE WriteEntry(d[k], reset) \o WriteEntries(d, k + 1, reset)

\* W3DLink.toXML(object_root): the Actions nodes below the Link written
ToXMLLink(rec, ordered) ==
    WriteEntries(Items(rec.actions, ordered), 1, rec.reset)

\* The Actions nodes of a document that is read, the actions below each
\* node named as fromXML names them: by their place in the document.
RECURSIVE LabelNodes(_, _, _)
LabelNodes(nodes, k, base) ==
    IF k > Len(nodes) THEN <<>>
    ELSE <<[clicks |-> nodes[k].clicks, text |-> nodes[k].text,
            reset |-> nodes[k].reset,
            actions |-> [i \in 1..nodes[k].children |-> base + i]]>>
         \o LabelNodes(nodes, k + 1, base + nodes[k].children)

\* The click count an Actions node binds its actions to.
NodeClicks(node) ==
    IF node.clicks = "num" THEN PyInt(node.text) ELSE AnyClicks

\* The actions a sequence of labelled nodes binds to one click count, in
\* document order.
RECURSIVE ClickMapping(_, _, _)
ClickMapping(nodes, k, clicks) ==
    IF k > Len(nodes) THEN <<>>
    ELSE (IF NodeClicks(nodes[k]) = clicks THEN nodes[k].actions ELSE <<>>)
         \o ClickMapping(nodes, k + 1, clicks)

\* The click counts of the NumClicks nodes that carry reset = true
TaggedCounts(nodes) ==
    {PyInt(nodes[k].text) :
        k \in {j \in 1..Len(nodes) : /\ nodes[j].clicks = "num"
                                     /\ nodes[j].reset = "true"}}

\* The click counts of all NumClicks nodes
NodeCounts(nodes) ==
    {PyInt(nodes[k].text) :
        k \in {j \in 1..Len(nodes) : nodes[j].clicks = "num"}}

SetMin(S) == CHOOSE m \in S : \A x \in S : m <= x

\* One Link document is read with fromXML; the record read is written
\* with toXML.
ReadLinkXML ==
    /\ xml.on
    /\ xml.kind = "link"
    /\ xml.stage = "document"
    /\ LET rec == FromXMLLink(xml.doc)
       IN  xml' = [xml EXCEPT
                     !.rec = rec,
                     !.stage = IF rec.err = "none" THEN "record" ELSE "raised"]
    /\ UNCHANGED <<tl_actions, tl_last, run, link, trig, probe, build,
                   poll, assets>>

WriteLinkXML ==
    /\ xml.on
    /\ xml.kind = "link"
    /\ xml.stage = "record"
    /\ \E ordered \in BOOLEAN :
          xml' = [xml EXCEPT !.out = ToXMLLink(xml.rec, ordered),
                             !.stage = "written"]
    /\ UNCHANGED <<tl_actions, tl_last, run, link, trig, probe, build,
                   poll, assets>>

InitLinkXML ==
    /\ assets = Idle
    /\ tl_actions = <<>>
    /\ tl_last = NoOp
    /\ run = Idle
    /\ link = Idle
    /\ trig = Idle
    /\ probe = Idle
    /\ build = Idle
    /\ poll = Idle
    /\ \E doc \in LinkDocuments :
          xml = [on |-> TRUE, kind |-> "link", stage |-> "document",
                 doc |-> doc, rec |-> NewLink, out |-> <<>>]

NextLinkXML == ReadLinkXML \/ WriteLinkXML

SpecLinkXML == InitLinkXML /\ [][NextLinkXML]_vars

(***************************************************************************)
(* W3DLink records written with toXML and read back with fromXML.  The     *)
(* validators take any integer as a key of "actions" and as "reset", and a *)
(* list of actions may be empty.  The actions of a record are numbered in  *)
(* the order of the dictionary.                                            *)
(***************************************************************************)
RecordKeys == (0 - 2)..MaxClickDigit

RecordResets == (0 - 2)..(MaxClickDigit + 1)

\* The number of actions in all lists of a dictionary
RECURSIVE DictSize(_)
DictSize(d) ==
    IF d = <<>> THEN 0
    ELSE DictSize(SubSeq(d, 1, Len(d) - 1)) + Len(d[Len(d)].list)

\* The dictionaries of n entries over distinct keys
RECURSIVE RecordDicts(_)
RecordDicts(n) ==
    IF n = 0 THEN {<<>>}
    ELSE {Append(t[1], [clicks |-> t[2],
                        list |-> [i \in 1..t[3] |-> DictSize(t[1]) + i]]) :
            t \in {u \in RecordDicts(n - 1) \X RecordKeys
                            \X (0..MaxLinkChildren) :
                     \A i \in 1..Len(u[1]) : u[1][i].clicks # u[2]}}

WrittenRecords ==
    {[err |-> "none", reset |-> reset, actions |-> d, n |-> DictSize(d)] :
        reset \in RecordResets,
        d \in UNION {RecordDicts(n) : n \in 0..MaxLinkNodes}}

\* The Link document toXML has written, as fromXML finds it: the Actions
\* nodes with the number of action children of each.
AsDocument(nodes) ==
    [link |-> TRUE,
     nodes |-> [k \in 1..Len(nodes) |->
                  [clicks |-> nodes[k].clicks, text |-> nodes[k].text,
                   reset |-> nodes[k].reset,
                   children |-> Len(nodes[k].actions)]]]

\* The actions below the written nodes, in document order
RECURSIVE WrittenActions(_)
WrittenActions(nodes) ==
    IF nodes = <<>> THEN <<>>
    ELSE WrittenActions(SubSeq(nodes, 1, Len(nodes) - 1))
            \o nodes[Len(nodes)].actions

\* The record read, the n-th action read being the n-th action written
ReadBackRecord(rec, written) ==
    [rec EXCEPT !.actions =
        [k \in 1..Len(rec.actions) |->
            [rec.actions[k] EXCEPT !.list =
                [i \in 1..Len(rec.actions[k].list) |->
                    written[rec.actions[k].list[i]]]]]]

\* dict.__eq__: the same keys, bound to equal lists
SameDict(d, e) ==
    /\ {d[i].clicks : i \in 1..Len(d)} = {e[i].clicks : i \in 1..Len(e)}
    /\ \A i \in 1..Len(d), j \in 1..Len(e) :
          d[i].clicks = e[j].clicks => d[i].list = e[j].list

\* toXML of the record
WriteRecord ==
    /\ xml.on
    /\ xml.kind = "record"
    /\ xml.stage = "record"
    /\ \E ordered \in BOOLEAN :
          xml' = [xml EXCEPT !.out = ToXMLLink(xml.rec, ordered),
                             !.stage = "written"]
    /\ UNCHANGED <<tl_actions, tl_last, run, link, trig, probe, build, poll,
                   assets>>

\* fromXML of the document written
ReadBack ==
    /\ xml.on
    /\ xml.kind = "record"
    /\ xml.stage = "written"
    /\ xml' = [xml EXCEPT
                 !.back = ReadBackRecord(FromXMLLink(AsDocument(xml.out)),
                                         WrittenActions(xml.out)),
                 !.stage = "read"]
    /\ UNCHANGED <<tl_actions, tl_last, run, link, trig, probe, build, poll,
                   assets>>

InitLinkRecord ==
    /\ tl_actions = <<>>
    /\ tl_last = NoOp
    /\ run = Idle
    /\ link = Idle
    /\ trig = Idle
    /\ probe = Idle
    /\ build = Idle
    /\ poll = Idle
    /\ assets = Idle
    /\ \E rec \in WrittenRecords :
          xml = [on |-> TRUE, kind |-> "record", stage |-> "record",
                 rec |-> rec, out |-> <<>>, back |-> NewLink]

NextLinkRecord == WriteRecord \/ ReadBack

SpecLinkRecord == InitLinkRecord /\ [][NextLinkRecord]_vars

(***************************************************************************)
(* Timeline documents read and written back.  Besides its TimedActions     *)
(* nodes a Timeline node has a name attribute and may have a               *)
(* start-immediately attribute ("absent" when it has none).                *)
(***************************************************************************)
NameTexts == {"a", "b"}

StartTexts == {"absent", "true", "false"}

RaisedTimeline(err) ==
    [err |-> err, name |-> "absent", has_start |-> FALSE,
     start_immediately |-> TRUE, actions |-> <<>>]

\* W3DTimeline.fromXML(timeline_root), with the name and start-immediately
\* attributes: the key start_immediately is set where the attribute is
\* present and has its default, True, elsewhere.
FromXMLTimeline(doc, name, start, getchildren) ==
    LET r == FromXMLResult(doc, getchildren)
    IN  IF r.err # "none" THEN RaisedTimeline(r.err)
        ELSE [err |-> "none", name |-> name,
              has_start |-> start # "absent",
              start_immediately |->
                  IF start = "absent" THEN TRUE ELSE Text2Bool(start),
              actions |-> r.actions]

\* str(time) of a float without a fraction: "2.0", "-1.0", "-0.0"
TimeText(time, minus) ==
    (IF minus THEN <<Minus>> ELSE <<>>)
        \o NatText(IF time < 0 THEN 0 - time ELSE time) \o <<Dot, Digit(0)>>

RaisedDocument(err) ==
    [err |-> err, name |-> "absent", start |-> "absent", nodes |-> <<>>]

\* W3DTimeline.toXML(all_timelines_root): the Timeline node written, one
\* TimedActions node for each pair of the list, in the order of the list.
ToXMLTimeline(rec) ==
    IF rec.name = "absent" THEN RaisedDocument("ConsistencyError")
    ELSE [err |-> "none",
          name |-> rec.name,
          start |-> IF rec.has_start THEN Bool2Text(rec.start_immediately)
                    ELSE "absent",
          nodes |-> [i \in 1..Len(rec.actions) |->
                        [text |-> TimeText(rec.actions[i].time,
                                           rec.actions[i].minus),
                         actions |-> <<rec.actions[i].action>>]]]

\* The (seconds-time, action) pairs of the TimedActions nodes of a document
\* that is read, in document order, the actions named as fromXML names
\* them: by their place in the document.
RECURSIVE TimedPairs(_, _, _)
TimedPairs(nodes, k, base) ==
    IF k > Len(nodes) THEN <<>>
    ELSE [i \in 1..nodes[k].children |->
            [time |-> Float(nodes[k].text), action |-> base + i]]
         \o TimedPairs(nodes, k + 1, base + nodes[k].children)

\* The (seconds-time, action) pairs of a written Timeline node
WrittenPairs(nodes) ==
    [i \in 1..Len(nodes) |->
        [time |-> Float(nodes[i].text), action |-> nodes[i].actions[1]]]

\* One Timeline document is read with fromXML; the timeline read is
\* written with toXML.
ReadTimelineXML(name, start, getchildren) ==
    /\ xml.on
    /\ xml.kind = "timeline"
    /\ xml.stage = "document"
    /\ xml.doc.name \/ (name = "a" /\ start = "absent")
    /\ LET rec == FromXMLTimeline(xml.doc, name, start, getchildren)
       IN  xml' = [xml EXCEPT
                     !.name = IF xml.doc.name THEN name ELSE "absent",
                     !.start = start,
                     !.rec = rec,
                     !.stage = IF rec.err = "none" THEN "record" ELSE "raised"]
    /\ UNCHANGED <<tl_actions, tl_last, run, link, trig, probe, build,
                   poll, assets>>

WriteTimelineXML ==
    /\ xml.on
    /\ xml.kind = "timeline"
    /\ xml.stage = "record"
    /\ xml' = [xml EXCEPT !.out = ToXMLTimeline(xml.rec), !.stage = "written"]
    /\ UNCHANGED <<tl_actions, tl_last, run, link, trig, probe, build,
                   poll, assets>>

InitTimelineXML ==
    /\ assets = Idle
    /\ tl_actions = <<>>
    /\ tl_last = NoOp
    /\ run = Idle
    /\ link = Idle
    /\ trig = Idle
    /\ probe = Idle
    /\ build = Idle
    /\ poll = Idle
    /\ \E doc \in Documents :
          xml = [on |-> TRUE, kind |-> "timeline", stage |-> "document",
                 doc |-> doc, name |-> "absent", start |-> "absent",
                 rec |-> RaisedTimeline("none"),
                 out |-> RaisedDocument("none")]

NextTimelineXML ==
    \/ /\ xml.on
       /\ xml.stage = "document"
       /\ \E name \in NameTexts, start \in StartTexts,
             getchildren \in BOOLEAN :
             ReadTimelineXML(name, start, getchildren)
    \/ WriteTimelineXML

SpecTimelineXML == InitTimelineXML /\ [][NextTimelineXML]_vars

\* A LinkRoot without a Link child, or with a NumClicks node whose
\* num_clicks attribute is missing or is not an integer.
MalformedLink(doc) ==
    \/ ~doc.link
    \/ \E k \in 1..Len(doc.nodes) :
          /\ doc.nodes[k].clicks = "num"
          /\ ~IsInt(doc.nodes[k].text)

\* A Timeline node without a name attribute, or with a TimedActions node
\* whose seconds-time attribute is missing or is not numeric.
MalformedTimeline(doc) ==
    \/ ~doc.name
    \/ \E k \in 1..Len(doc.nodes) : ~IsNumber(doc.nodes[k].text)

\* A Link document or a Timeline document, whichever the behaviour starts
\* with.
SpecXML ==
    (InitLinkXML \/ InitTimelineXML)
        /\ [][NextLinkXML \/ NextTimelineXML]_vars

(***************************************************************************)
(* One record compiled for the game engine: a W3DLink or a W3DTimeline     *)
(* (blend, link_blender_logic, write_blender_logic) or a position trigger  *)
(* (create_blender_objects, link_detection_bricks,                         *)
(* generate_detection_logic).  blend makes a new activator each time it is *)
(* called and keeps it as self.activator; the activators of one record are *)
(* numbered in the order they are made, 0 standing for "no attribute yet". *)
(* For the trigger the number names the sensor and controller             *)
(* create_blender_objects made last.  The activator classes are not among  *)
(* the source files: their create, link and write steps return.            *)
(* A W3DTimeline has a name or has none (no default gives it one); the     *)
(* module of the trigger is loaded with bpy or stands alone, without       *)
(* BPY_OPS_CALL; and BlenderTrigger, which is not among the source files,  *)
(* gives its instances a subscript or gives them none.                     *)
(***************************************************************************)
MaxBlends == 2     \* build steps taken on one record

BuildKinds == {"link", "timeline", "trigger"}

Records == {"link", "timeline"}

NoCall == [op |-> "none", err |-> "none"]

\* try: self.activator.link_logic_bricks()   except AttributeError: EBKAC
CanLink(b) == b.activator # 0

\* A write step that does not look for self.activator.
CanWriteAlways(b) == TRUE

\* try: self.activator.write_python_logic()  except AttributeError: EBKAC
CanWrite(b) == b.activator # 0

\* try: self.detect_controller.link(sensor=self.enable_sensor)
\* except AttributeError: EBKAC
CanLinkDetection(b) == b.activator # 0

\* W3DLink.blend(object_name), W3DTimeline.blend(): the timeline reads
\* self["name"] for the activator it is about to make.
Blend ==
    /\ build.on
    /\ build.kind \in Records
    /\ build.activator < MaxBlends
    /\ build' = IF build.named
                THEN [build EXCEPT !.activator = @ + 1,
                                   !.last = [op |-> "build", err |-> "none"]]
                ELSE [build EXCEPT
                        !.last = [op |-> "build", err |-> "KeyError"]]
    /\ UNCHANGED <<tl_actions, tl_last, run, link, trig, probe, xml,
                   poll, assets>>

\* link_blender_logic()
LinkBlenderLogic ==
    /\ build.on
    /\ build.kind \in Records
    /\ build' = IF CanLink(build)
                THEN [build EXCEPT !.linked = @ \cup {build.activator},
                                   !.last = [op |-> "link", err |-> "none"]]
                ELSE [build EXCEPT !.last = [op |-> "link", err |-> "EBKAC"]]
    /\ UNCHANGED <<tl_actions, tl_last, run, link, trig, probe, xml,
                   poll, assets>>

\* write_blender_logic(): the one of W3DTimeline reads self["name"] for
\* its log line before it enters the try.
WriteBlenderLogic ==
    /\ build.on
    /\ build.kind \in Records
    /\ build' = IF ~build.named
                THEN [build EXCEPT
                        !.last = [op |-> "write", err |-> "KeyError"]]
                ELSE IF CanWrite(build)
                THEN [build EXCEPT !.written = @ \cup {build.activator},
                                   !.last = [op |-> "write", err |-> "none"]]
                ELSE [build EXCEPT !.last = [op |-> "write", err |-> "EBKAC"]]
    /\ UNCHANGED <<tl_actions, tl_last, run, link, trig, probe, xml,
                   poll, assets>>

\* BlenderObjectPositionTrigger.create_blender_objects(): the base object,
\* then the enabled sensor and the detect controller.  Nothing in it looks
\* the names of objects_string up.  create_enabled_sensor calls
\* BPY_OPS_CALL before it keeps a sensor; the name is bound only where bpy
\* was found when the module was loaded.
CreateBlenderObjects ==
    /\ build.on
    /\ build.kind = "trigger"
    /\ build.activator < MaxBlends
    /\ build' = IF build.bpy
                THEN [build EXCEPT !.activator = @ + 1,
                                   !.last = [op |-> "build", err |-> "none"]]
                ELSE [build EXCEPT
                        !.last = [op |-> "build", err |-> "NameError"]]
    /\ UNCHANGED <<tl_actions, tl_last, run, link, trig, probe, xml,
                   poll, assets>>

\* BlenderObjectPositionTrigger.link_detection_bricks()
LinkDetectionBricks ==
    /\ build.on
    /\ build.kind = "trigger"
    /\ build' = IF CanLinkDetection(build)
                THEN [build EXCEPT !.linked = @ \cup {build.activator},
                                   !.last = [op |-> "link", err |-> "none"]]
                ELSE [build EXCEPT !.last = [op |-> "link", err |-> "EBKAC"]]
    /\ UNCHANGED <<tl_actions, tl_last, run, link, trig, probe, xml,
                   poll, assets>>

\* BlenderObjectPositionTrigger.generate_detection_logic(): the text of
\* detect_event is put together from box, objects_string and detect_any;
\* objects_string goes into the text as it is.  The corners are read with
\* self["box"], a subscript of the trigger itself.
GenerateDetectionLogic ==
    /\ build.on
    /\ build.kind = "trigger"
    /\ build' = IF build.subscript
                THEN [build EXCEPT
                        !.generated = TRUE,
                        !.last = [op |-> "generate", err |-> "none"]]
                ELSE [build EXCEPT
                        !.last = [op |-> "generate", err |-> "TypeError"]]
    /\ UNCHANGED <<tl_actions, tl_last, run, link, trig, probe, xml,
                   poll, assets>>

\* Whether the objects_string of a trigger names an object the scene lacks
Unresolved(b) == \E k \in 1..Len(b.objects) : b.objects[k] \notin b.scene

\* The record as its constructor leaves it, a trigger with the objects its
\* objects_string names, and the objects the scene has.  named is told of a
\* timeline, bpy and subscript of a trigger.
InitBuild ==
    /\ assets = Idle
    /\ tl_actions = <<>>
    /\ tl_last = NoOp
    /\ run = Idle
    /\ link = Idle
    /\ trig = Idle
    /\ probe = Idle
    /\ xml = Idle
    /\ poll = Idle
    /\ \E kind \in BuildKinds, objects \in ObjectLists,
          scene \in SUBSET (1..MaxObjects),
          named \in BOOLEAN, bpy \in BOOLEAN, subscript \in BOOLEAN :
          /\ kind \in Records => objects = <<>> /\ scene = 1..MaxObjects
          /\ kind # "timeline" => named
          /\ kind # "trigger" => bpy /\ subscript
          /\ build = [on |-> TRUE, kind |-> kind, objects |-> objects,
                      scene |-> scene, named |-> named, bpy |-> bpy,
                      subscript |-> subscript, activator |-> 0,
                      linked |-> {}, written |-> {}, generated |-> FALSE,
                      last |-> NoCall]

NextBuild ==
    \/ Blend
    \/ LinkBlenderLogic
    \/ WriteBlenderLogic
    \/ CreateBlenderObjects
    \/ LinkDetectionBricks
    \/ GenerateDetectionLogic

SpecBuild == InitBuild /\ [][NextBuild]_vars

(***************************************************************************)
(* Two position triggers of one scene polled within one frame, in either   *)
(* order, the objects staying where they are.  Each trigger has its own    *)
(* state holder (enabled, status); `start` is what the frame began with.   *)
(***************************************************************************)
PollNames == {1, 2}

\* objects_string of a polled trigger: no object, or one
PollLists == {objs \in ObjectLists : Len(objs) <= 1}

PollPlaces == {<<0, 0, 0>>, <<Far, 0, 0>>, Absent}

PollBox ==
    [corner1 |-> <<0, 0, 0>>, corner2 |-> <<BoxSize, BoxSize, BoxSize>>,
     direction |-> "Inside"]

Owners == [enabled : BOOLEAN, status : {"Stop", "Start"}]

\* The detect value of trigger n in this frame
PollInRegion(n) ==
    InRegion([box |-> PollBox, objects |-> poll.objects[n],
              detect_any |-> poll.detect_any[n]],
             poll.zip_is_list, poll.positions)

\* The engine calls detect_event of trigger n.
PollTick(n) ==
    /\ poll.on
    /\ \A k \in 1..Len(poll.polled) : poll.polled[k] # n
    /\ poll' = [poll EXCEPT
                  !.own[n] = DetectEvent(poll.own[n], PollInRegion(n)),
                  !.polled = Append(@, n)]
    /\ UNCHANGED <<tl_actions, tl_last, run, link, trig, probe, xml,
                   build, assets>>

InitPoll ==
    /\ assets = Idle
    /\ tl_actions = <<>>
    /\ tl_last = NoOp
    /\ run = Idle
    /\ link = Idle
    /\ trig = Idle
    /\ probe = Idle
    /\ xml = Idle
    /\ build = Idle
    /\ \E objects \in [PollNames -> PollLists],
          detect_any \in [PollNames -> BOOLEAN],
          own \in [PollNames -> Owners],
          positions \in [1..MaxObjects -> PollPlaces],
          zip_is_list \in BOOLEAN :
          poll = [on |-> TRUE, objects |-> objects, detect_any |-> detect_any,
                  zip_is_list |-> zip_is_list, positions |-> positions,
                  placed |-> positions, start |-> own, own |-> own,
                  polled |-> <<>>]

NextPoll == \E n \in PollNames : PollTick(n)

SpecPoll == InitPoll /\ [][NextPoll]_vars

(***************************************************************************)
(* pyw3d/objects_utility.py: generate_object_from_model and                *)
(* generate_material_from_image with their caches, the function attributes *)
(* _models and _materials.  The host (bpy) holds the objects, the          *)
(* materials and the textures.  A call is a chain of activations: an       *)
(* activation either returns, raises, or ends in the call of the function  *)
(* by itself on its last line.                                             *)
(***************************************************************************)
MaxCalls == 3      \* calls of the two functions in one process
MaxDepth == 3      \* self-calls followed within one call

\* Filenames: two files of one base name in two directories, and a third.
Filenames ==
    {[dir |-> "d1", base |-> "a"], [dir |-> "d2", base |-> "a"],
     [dir |-> "d1", base |-> "b"]}

\* bpy.path.display_name_from_filepath(filename): the base name without
\* directory and extension
DisplayName(filename) == filename.base

\* os.path.splitext(os.path.basename(filename))[0]
BaseName(filename) == filename.base

\* "{}{}".format(material_name, n)
MaterialName(filename, n) ==
    [stem |-> DisplayName(filename), tail |-> n, copy |-> 0]

\* '_'.join((base name, "image_texture"))
TextureName(filename) ==
    [stem |-> BaseName(filename), tail |-> "image_texture", copy |-> 0]

\* A host that stores the name it is given, taken or not.
HostStores(collection, name) == Append(collection, name)

\* bpy.data.materials.new(name=...), bpy.data.textures.new(name=...): the
\* host adds a datablock to its collection and keeps the names of a
\* collection unique: a datablock whose name is taken gets the first free
\* copy number ("a0", then "a0.001").
HostNew(collection, name) ==
    LET taken == {collection[i].copy :
                    i \in {j \in 1..Len(collection) :
                             /\ collection[j].stem = name.stem
                             /\ collection[j].tail = name.tail}}
        free == CHOOSE n \in 0..Len(collection) :
                    /\ n \notin taken
                    /\ \A m \in 0..Len(collection) : m \notin taken => n <= m
    IN  Append(collection, [name EXCEPT !.copy = free])

\* A cache that keeps no entry.
StoreNothing(cache, filename, handle) == cache

\* generate_object_from_model._models[filename] = new_model
StoreModel(cache, filename, handle) ==
    [f \in DOMAIN cache \cup {filename} |->
        IF f = filename THEN handle ELSE cache[f]]

\* A material cache that keeps no entry.
StoreNoMaterial(cache, filename, pair) == cache

\* generate_material_from_image._materials[filename] =
\*     (material_single, material_double)
StoreMaterial(cache, filename, pair) ==
    [f \in DOMAIN cache \cup {filename} |->
        IF f = filename THEN pair ELSE cache[f]]

\* _materials[filename][double_sided]: a boolean indexes the pair
PickMaterial(pair, double_sided) ==
    IF double_sided THEN pair[2] ELSE pair[1]

EmptyCache == [f \in {} |-> 0]

\* What a call gave back: the value returned (a handle of the host) or the
\* error raised, the self-calls followed, and whether the import or the
\* creation ran in this call.
CallResult(a, value, err, made) ==
    [fn |-> a.fn, filename |-> a.filename, double_sided |-> a.double_sided,
     value |-> value, err |-> err, depth |-> a.depth, made |-> made]

\* duplicate_object(original): a new object with a copy of the data,
\* linked to the scene.  An object of the host is the handle of its data.
DuplicateObject(a, original) ==
    [a EXCEPT !.objects = Append(@, a.ndata + 1),
              !.ndata = @ + 1,
              !.returned = Append(@, CallResult(a, Len(a.objects) + 1,
                                              "none", FALSE)),
              !.pc = "idle"]

\* The import of a model file that is not cached: the pieces are joined to
\* one new object, which is stored and returned.
ImportModel(a) ==
    IF a.filename \notin a.files
    THEN [a EXCEPT !.returned = Append(@, CallResult(a, 0, "RuntimeError",
                                                   FALSE)),
                   !.pc = "idle"]
    ELSE LET new_model == Len(a.objects) + 1
         IN  [a EXCEPT
                !.objects = Append(@, a.ndata + 1),
                !.ndata = @ + 1,
                !.imports[a.filename] = @ + 1,
                !.models = StoreModel(@, a.filename, new_model),
                !.returned = Append(@, CallResult(a, new_model, "none", TRUE)),
                !.pc = "idle"]

\* One activation of generate_object_from_model(filename)
ModelBody(a) ==
    IF ~a.has_models
    THEN [a EXCEPT !.has_models = TRUE, !.models = EmptyCache,
                   !.pc = "again"]
    ELSE IF a.filename \notin DOMAIN a.models
    THEN ImportModel(a)
    ELSE DuplicateObject(a, a.models[a.filename])

\* The creation of the two materials and the texture of an image that is
\* not cached; bpy.data.images.load raises for a file that is not found,
\* after the three datablocks were made.
CreateMaterials(a) ==
    LET single == Len(a.bmaterials) + 1
        double == Len(a.bmaterials) + 2
        made == [a EXCEPT
                   !.bmaterials =
                       HostNew(HostNew(@, MaterialName(a.filename, 0)),
                               MaterialName(a.filename, 1)),
                   !.btextures = HostNew(@, TextureName(a.filename)),
                   !.owner = @ \o <<a.filename, a.filename>>,
                   !.towner = Append(@, a.filename)]
    IN  IF a.filename \notin a.files
        THEN [made EXCEPT
                !.returned = Append(@, CallResult(a, 0, "RuntimeError", FALSE)),
                !.pc = "idle"]
        ELSE [made EXCEPT
                !.creations[a.filename] = @ + 1,
                !.made = TRUE,
                !.materials = StoreMaterial(@, a.filename,
                                            <<single, double>>),
                !.pc = "again"]

\* One activation of generate_material_from_image(filename, double_sided)
MaterialBody(a) ==
    IF ~a.has_materials
    THEN [a EXCEPT !.has_materials = TRUE, !.materials = EmptyCache,
                   !.pc = "again"]
    ELSE IF a.filename \notin DOMAIN a.materials
    THEN CreateMaterials(a)
    ELSE [a EXCEPT
            !.returned =
                Append(@, CallResult(a, PickMaterial(a.materials[a.filename],
                                                   a.double_sided),
                                   "none", a.made)),
            !.pc = "idle"]

\* generate_object_from_model(filename) is called.
CallModel(filename) ==
    /\ assets' = [assets EXCEPT !.pc = "body", !.fn = "model",
                                !.filename = filename,
                                !.double_sided = TRUE,
                                !.depth = 0, !.made = FALSE,
                                !.calls = @ + 1]
    /\ UNCHANGED <<tl_actions, tl_last, run, link, trig, probe, xml, build,
                   poll>>

\* generate_material_from_image(filename, double_sided) is called.
CallMaterial(filename, double_sided) ==
    /\ assets' = [assets EXCEPT !.pc = "body", !.fn = "material",
                                !.filename = filename,
                                !.double_sided = double_sided,
                                !.depth = 0, !.made = FALSE,
                                !.calls = @ + 1]
    /\ UNCHANGED <<tl_actions, tl_last, run, link, trig, probe, xml, build,
                   poll>>

\* The activation runs to its return, its raise or its last line.
RunBody ==
    /\ assets.on
    /\ assets.pc = "body"
    /\ assets' = IF assets.fn = "model" THEN ModelBody(assets)
                 ELSE MaterialBody(assets)
    /\ UNCHANGED <<tl_actions, tl_last, run, link, trig, probe, xml, build,
                   poll>>

\* return generate_object_from_model(filename), and
\* return generate_material_from_image(filename, double_sided=double_sided)
CallAgain ==
    /\ assets.on
    /\ assets.pc = "again"
    /\ assets.depth < MaxDepth
    /\ assets' = [assets EXCEPT !.pc = "body", !.depth = @ + 1]
    /\ UNCHANGED <<tl_actions, tl_last, run, link, trig, probe, xml, build,
                   poll>>

InitAssets ==
    /\ tl_actions = <<>>
    /\ tl_last = NoOp
    /\ run = Idle
    /\ link = Idle
    /\ trig = Idle
    /\ probe = Idle
    /\ xml = Idle
    /\ build = Idle
    /\ poll = Idle
    /\ \E files \in SUBSET Filenames :
          assets = [on |-> TRUE, files |-> files,
                    has_models |-> FALSE, models |-> EmptyCache,
                    has_materials |-> FALSE, materials |-> EmptyCache,
                    objects |-> <<>>, ndata |-> 0,
                    bmaterials |-> <<>>, btextures |-> <<>>,
                    owner |-> <<>>, towner |-> <<>>,
                    imports |-> [f \in Filenames |-> 0],
                    creations |-> [f \in Filenames |-> 0],
                    pc |-> "idle", fn |-> "model",
                    filename |-> CHOOSE f \in Filenames : TRUE,
                    double_sided |-> TRUE, depth |-> 0, made |-> FALSE,
                    calls |-> 0, returned |-> <<>>]

NextAssets ==
    \/ /\ assets.on
       /\ assets.pc = "idle"
       /\ assets.calls < MaxCalls
       /\ \E filename \in Filenames : CallModel(filename)
    \/ /\ assets.on
       /\ assets.pc = "idle"
       /\ assets.calls < MaxCalls
       /\ \E filename \in Filenames, double_sided \in BOOLEAN :
             CallMaterial(filename, double_sided)
    \/ RunBody
    \/ CallAgain

SpecAssets == InitAssets /\ [][NextAssets]_vars

(***************************************************************************)
(* C1  Iterating a timeline yields its pairs in non-decreasing start time,  *)
(* and pairs of equal start time in the order they were inserted (a pair's *)
(* action is named by its place in the order of insertion).                *)
(***************************************************************************)
C1_TimelineOrdered ==
    \A i, j \in 1..Len(tl_actions) :
        i < j =>
            /\ tl_actions[i].time <= tl_actions[j].time
            /\ tl_actions[i].time = tl_actions[j].time
                  => tl_actions[i].action < tl_actions[j].action

\* A timeline of MaxLen pairs in which a later insertion went before an
\* earlier one and two insertions share a start time.
C1_Witness ==
    /\ Len(tl_actions) = MaxLen
    /\ \E i, j \in 1..Len(tl_actions) :
          i < j /\ tl_actions[i].action > tl_actions[j].action
    /\ \E i, j \in 1..Len(tl_actions) :
          i < j /\ tl_actions[i].time = tl_actions[j].time

(***************************************************************************)
(* C2  A pair with a negative start time is rejected on every insertion    *)
(* path: the operation ends in an error, the list is unchanged and no pair *)
(* of the timeline has a negative start time.                              *)
(***************************************************************************)
C2_NegativeRejected ==
    /\ tl_last.negative => (tl_last.err # "none" /\ ~tl_last.changed)
    /\ \A i \in 1..Len(tl_actions) : tl_actions[i].time >= 0

(***************************************************************************)
(* C10  In one run of a compiled timeline each pair fires at most once:    *)
(* once the run has ticked, a pair has fired exactly once if elapsed time  *)
(* has reached its start time, at the tick that first reached or crossed   *)
(* it, and not at all otherwise (also when the run was stopped or          *)
(* restarted before).                                                      *)
(***************************************************************************)
C10_FiresOncePerRun ==
    run.on =>
        \A i \in 1..Len(run.times) :
            /\ run.fired[i].n <= 1
            /\ (run.fired[i].n = 1) <=> (run.ticked /\ run.times[i] <= run.elapsed)
            /\ run.fired[i].n = 1 =>
                  /\ run.fired[i].at >= run.times[i]
                  /\ run.fired[i].first \/ run.fired[i].from < run.times[i]

\* A second run, two ticks after a pair fired in it, stopped before the
\* time of another pair.
C10_Witness ==
    /\ run.on
    /\ run.runs = MaxRuns
    /\ run.status = "Stop"
    /\ \E i, j \in 1..Len(run.times) :
          /\ run.fired[i].n = 1
          /\ run.fired[i].at < run.elapsed
          /\ ~run.fired[i].first
          /\ run.fired[j].n = 0
          /\ run.times[j] > run.elapsed

(***************************************************************************)
(* C3  The click count starts at 0; a click of a disabled link leaves it   *)
(* unchanged; after n clicks of the enabled link it is n modulo reset when *)
(* reset > 0 (for reset = 3: 1, 2, 0, 1), so it stays in 0..reset-1, and n *)
(* when the link never resets.                                             *)
(***************************************************************************)
C3_ClickCount ==
    link.on =>
        /\ link.nclicks = 0 => link.num_clicks = 0
        /\ link.last.kind = "disabled" => link.last.after = link.last.before
        /\ link.last.kind = "enabled" =>
              /\ link.num_clicks = link.last.after
              /\ link.last.after =
                    IF link.last.before + 1 = link.rec.reset /\ link.rec.reset >= 0
                    THEN 0 ELSE link.last.before + 1
        /\ link.rec.reset > 0 =>
              /\ link.num_clicks = link.nclicks % link.rec.reset
              /\ link.num_clicks \in 0..(link.rec.reset - 1)
        /\ link.rec.reset = 3 /\ link.nclicks >= 1 /\ link.nclicks <= 4 =>
              link.num_clicks = <<1, 2, 0, 1>>[link.nclicks]

\* The fourth click of a link with reset = 3.
C3_Witness ==
    /\ link.on
    /\ link.rec.reset = 3
    /\ link.nclicks = 4
    /\ link.num_clicks = 1
    /\ link.last.kind = "enabled"

(***************************************************************************)
(* C4  A click of an enabled link dispatches exactly the list bound to the *)
(* new count when the mapping has it, else exactly the list of "any click" *)
(* when the mapping has one, else nothing; never both.                     *)
(***************************************************************************)
C4_Dispatch ==
    (link.on /\ link.last.kind = "enabled") =>
        /\ link.last.after \in link.rec.actions
              => link.last.dispatched = <<link.last.after>>
        /\ (link.last.after \notin link.rec.actions
                /\ AnyClicks \in link.rec.actions)
              => link.last.dispatched = <<AnyClicks>>
        /\ (link.last.after \notin link.rec.actions
                /\ AnyClicks \notin link.rec.actions)
              => link.last.dispatched = <<>>
        /\ Len(link.last.dispatched) <= 1

\* A click that fell back to the list of "any click" after an earlier one
\* found the list of its count, on a link that has both.
C4_Witness ==
    /\ link.on
    /\ link.last.kind = "enabled"
    /\ link.last.dispatched = <<AnyClicks>>
    /\ link.last.before \in link.rec.actions
    /\ link.last.before > 0

(***************************************************************************)
(* C6  The per-object predicate of the generated detection logic equals    *)
(* the reference: contained is "no axis out of the box's bounds" for       *)
(* Inside and "some axis out of bounds" for Outside, the bounds being the  *)
(* smaller and the larger corner coordinate of each axis.                  *)
(***************************************************************************)
C6_ContainmentIsReference ==
    (probe.on /\ probe.done) =>
        probe.result = PyBool(RefContained(probe.box, probe.position))

(***************************************************************************)
(* C5  In a tick of a position trigger the status goes from Stop to Start  *)
(* if and only if the detect condition evaluated to true, the trigger was  *)
(* enabled and its status was Stop; in every other case the tick leaves    *)
(* the status as it was.                                                   *)
(***************************************************************************)
C5_StatusGuard ==
    (trig.on /\ trig.last.kind = "tick") =>
        /\ trig.status = trig.last.after
        /\ (trig.last.status = "Stop" /\ trig.last.after = "Start")
              <=> (trig.last.in_region = "True" /\ trig.last.enabled
                      /\ trig.last.status = "Stop")
        /\ ~(trig.last.in_region = "True" /\ trig.last.enabled
                /\ trig.last.status = "Stop")
              => trig.last.after = trig.last.status

\* A tick that took an enabled trigger from Stop to Start.
C5_Witness ==
    /\ trig.on
    /\ trig.last.kind = "tick"
    /\ trig.last.status = "Stop"
    /\ trig.last.after = "Start"
    /\ trig.last.enabled

(***************************************************************************)
(* C7  For a non-empty tracked-object set the detect value of the          *)
(* generated loop is: some tracked object is contained when detect_any,    *)
(* every tracked object is contained otherwise (stated where the           *)
(* generated module compiles).                                             *)
(***************************************************************************)
C7_AggregateIsReference ==
    (trig.on /\ trig.zip_is_list /\ trig.last.kind = "tick"
        /\ trig.last.tracked > 0 /\ trig.last.resolved)
      => trig.last.in_region = PyBool(trig.last.ref)

(***************************************************************************)
(* C8  A trigger or link made with remain_enabled = False is disabled by   *)
(* its first activation, once; until something enables it again it is not  *)
(* activated and dispatches nothing a second time.                         *)
(***************************************************************************)
C8_DisableOnFire ==
    /\ (trig.on /\ ~trig.args.remain_enabled) =>
          /\ trig.since <= 1
          /\ trig.disables <= 1
          /\ (trig.since = 1 /\ trig.status = "Stop") => ~trig.enabled
          /\ trig.disables = 1 => ~trig.enabled
    /\ (link.on /\ ~link.rec.remain_enabled) =>
          /\ link.since <= 1
          /\ link.since = 1 => ~link.enabled

\* A tick with the detect condition still true, after the one activation
\* of a trigger that does not remain enabled was dispatched.
C8_Witness ==
    /\ trig.on
    /\ ~trig.args.remain_enabled
    /\ trig.since = 1
    /\ trig.disables = 1
    /\ trig.last.kind = "tick"
    /\ trig.last.in_region = "True"
    /\ trig.last.status = "Stop"
    /\ trig.last.after = "Stop"

(***************************************************************************)
(* C9  A trigger made with duration > 0 goes from Stop to Start only at a  *)
(* tick that ends `duration` consecutive ticks with the detect condition   *)
(* true.                                                                   *)
(***************************************************************************)
C9_SustainedBeforeStart ==
    (trig.on /\ trig.last.kind = "tick" /\ trig.last.status = "Stop"
        /\ trig.last.after = "Start")
      => trig.last.streak >= trig.args.duration

(***************************************************************************)
(* C11  W3DLink.fromXML sets reset to the minimum num_clicks over all the  *)
(* NumClicks nodes whose reset attribute is true, whatever the order of    *)
(* the Actions nodes, and leaves reset at -1 when no node is tagged.       *)
(* As stated, for every document fromXML accepts:                          *)
(***************************************************************************)
C11_ResetIsMinimum ==
    (xml.on /\ xml.kind = "link" /\ xml.stage \in {"record", "written"}) =>
        LET tagged == TaggedCounts(xml.doc.nodes)
        IN  xml.rec.reset = IF tagged = {} THEN 0 - 1 ELSE SetMin(tagged)

\* C11 holds where no reset-tagged NumClicks node has num_clicks = -1, the
\* value fromXML also uses for "no reset seen yet": reset is then the
\* minimum tagged count, or -1 when no node is tagged.
C11_ResetIsMinimumCount ==
    (xml.on /\ xml.kind = "link" /\ xml.stage \in {"record", "written"}) =>
        LET tagged == TaggedCounts(xml.doc.nodes)
        IN  (0 - 1) \notin tagged =>
                xml.rec.reset = IF tagged = {} THEN 0 - 1 ELSE SetMin(tagged)

\* Two tagged nodes, the larger count first: reset is the smaller count.
C11_Witness ==
    /\ xml.on /\ xml.kind = "link" /\ xml.stage = "record"
    /\ Len(xml.doc.nodes) = 2
    /\ \A k \in 1..2 : /\ xml.doc.nodes[k].clicks = "num"
                       /\ xml.doc.nodes[k].reset = "true"
    /\ PyInt(xml.doc.nodes[1].text) > PyInt(xml.doc.nodes[2].text)
    /\ PyInt(xml.doc.nodes[2].text) >= 0
    /\ xml.rec.reset = PyInt(xml.doc.nodes[2].text)

(***************************************************************************)
(* C12  For a well-formed Link document d (one that fromXML reads, its     *)
(* click counts not negative), toXML(fromXML(d)) binds the same actions in *)
(* the same order to every click count and to Any, and has reset = true on *)
(* NumClicks nodes of the same click counts as d.                          *)
(***************************************************************************)
C12_RoundTripKeepsTags ==
    (/\ xml.on /\ xml.kind = "link" /\ xml.stage = "written"
     /\ \A c \in NodeCounts(xml.doc.nodes) : c >= 0) =>
        LET d == LabelNodes(xml.doc.nodes, 1, 0)
        IN  /\ \A c \in {AnyClicks} \cup NodeCounts(d) \cup NodeCounts(xml.out) :
                  ClickMapping(xml.out, 1, c) = ClickMapping(d, 1, c)
            /\ TaggedCounts(xml.out) = TaggedCounts(d)

(***************************************************************************)
(* C13  For a well-formed Timeline document d (a name, and a numeric       *)
(* seconds-time on every TimedActions node) fromXML returns a timeline,    *)
(* and toXML(fromXML(d)) lists the (seconds-time, action) pairs of d and   *)
(* no others, in non-decreasing time, the actions of one time in their     *)
(* document order, and has the name and the start-immediately attribute of *)
(* d.                                                                      *)
(***************************************************************************)
C13_TimelineRoundTrip ==
    (/\ xml.on
     /\ xml.kind = "timeline"
     /\ xml.stage # "document"
     /\ ~MalformedTimeline(xml.doc)) =>
        /\ xml.stage # "raised"
        /\ xml.stage = "written" =>
              LET d == TimedPairs(xml.doc.nodes, 1, 0)
                  w == WrittenPairs(xml.out.nodes)
              IN  /\ xml.out.err = "none"
                  /\ Len(w) = Len(d)
                  /\ {w[i] : i \in 1..Len(w)} = {d[i] : i \in 1..Len(d)}
                  /\ \A i, j \in 1..Len(w) :
                        i < j =>
                           /\ w[i].time <= w[j].time
                           /\ w[i].time = w[j].time
                                 => w[i].action < w[j].action
                  /\ xml.out.name = xml.name
                  /\ xml.start # "absent" => xml.out.start = xml.start

(***************************************************************************)
(* C14  Reading a document that lacks a required field raises BadW3DXML    *)
(* and gives the caller no record: a LinkRoot without a Link child, a      *)
(* NumClicks node whose num_clicks is missing or not an integer, a         *)
(* Timeline node without a name, a TimedActions node whose seconds-time is *)
(* missing or not numeric.                                                 *)
(***************************************************************************)
C14_MalformedRaises ==
    (/\ xml.on
     /\ xml.stage # "document"
     /\ \/ xml.kind = "link" /\ MalformedLink(xml.doc)
        \/ xml.kind = "timeline" /\ MalformedTimeline(xml.doc)) =>
        /\ xml.stage = "raised"
        /\ xml.rec.err = "BadW3DXML"
        /\ xml.rec.actions = <<>>

(***************************************************************************)
(* C15  On a W3DLink, a W3DTimeline and a position trigger the link step   *)
(* and the write step signal EBKAC when no build step has succeeded, and   *)
(* the call that failed has made no activator and linked or written        *)
(* nothing; once a build step has succeeded they do not signal EBKAC.      *)
(***************************************************************************)
C15_BuildBeforeLink ==
    build.on =>
        /\ build.last.op \in {"link", "write"} =>
              /\ build.last.err \in {"none", "EBKAC"}
              /\ build.last.err = "EBKAC" <=> build.activator = 0
        /\ build.last.err = "EBKAC" => build.last.op \in {"link", "write"}
        /\ build.activator = 0 => build.linked = {} /\ build.written = {}

(***************************************************************************)
(* C16  On a W3DLink or W3DTimeline write_blender_logic succeeds only      *)
(* after link_blender_logic has succeeded, which succeeds only after       *)
(* blend; a write step after blend and before link is not accepted.        *)
(* As stated:                                                              *)
(***************************************************************************)
C16_WriteAfterLink ==
    (build.on /\ build.kind \in Records) =>
        /\ build.written # {} => build.linked # {}
        /\ build.linked # {} => build.activator # 0

\* C16 as the code has it: the link step and the write step each succeed
\* only after blend, and the write step succeeds on every record blend was
\* called on, linked or not.
C16_BlendFirst ==
    (build.on /\ build.kind \in Records) =>
        /\ build.written \subseteq 1..build.activator
        /\ build.linked \subseteq 1..build.activator
        /\ (build.last.op = "write" /\ build.activator # 0) =>
              /\ build.last.err = "none"
              /\ build.activator \in build.written

\* write_blender_logic has succeeded on a record that was never linked.
C16_Witness ==
    /\ build.on
    /\ build.kind = "timeline"
    /\ build.activator = 1
    /\ build.last = [op |-> "write", err |-> "none"]
    /\ build.written = {1}
    /\ build.linked = {}

(***************************************************************************)
(* C17  Compiling a position trigger whose objects_string names an object  *)
(* or group the scene lacks fails: no build, link or logic generation step *)
(* on such a trigger succeeds.                                             *)
(***************************************************************************)
C17_UnresolvedFails ==
    (build.on /\ build.kind = "trigger" /\ Unresolved(build)) =>
        ~(/\ build.last.op \in {"build", "link", "generate"}
          /\ build.last.err = "none")

(***************************************************************************)
(* C18  Every tick evaluation of detect_event ends with a boolean detect   *)
(* value and raises nothing (stated where the generated module compiles    *)
(* and the scene has every object the trigger names).                      *)
(***************************************************************************)
C18_TickIsTotal ==
    (trig.on /\ trig.zip_is_list /\ trig.last.kind = "tick"
        /\ trig.last.resolved)
      => trig.last.in_region \in {"True", "False"}

(***************************************************************************)
(* C19  With no tracked object the detect value is false for detect_any =  *)
(* True and for detect_any = False, and the tick leaves status as it was   *)
(* (stated where the generated module compiles).  As stated:               *)
(***************************************************************************)
C19_EmptyNeverDetects ==
    (trig.on /\ trig.zip_is_list /\ trig.last.kind = "tick"
        /\ trig.last.tracked = 0)
      => /\ trig.last.in_region = "False"
         /\ trig.last.after = trig.last.status

\* C19 as the code has it: with no tracked object the detect value is the
\* initial value of the fold, not detect_any: false for detect_any = True,
\* where the tick never starts the trigger, and true for detect_any =
\* False, where the tick of an enabled trigger goes from Stop to Start.
\* Where the module does not compile there is no detect value and status
\* stays.
C19_EmptyIsVacuous ==
    (trig.on /\ trig.last.kind = "tick" /\ trig.last.tracked = 0) =>
        IF trig.zip_is_list
        THEN /\ trig.last.in_region = PyBool(~trig.detect_any)
             /\ trig.detect_any => trig.last.after = trig.last.status
             /\ (/\ ~trig.detect_any
                 /\ trig.last.enabled
                 /\ trig.last.status = "Stop") => trig.last.after = "Start"
        ELSE /\ trig.last.in_region \notin {"True", "False"}
             /\ trig.last.after = trig.last.status

\* The tick of an enabled trigger with no tracked object and detect_any =
\* False: the detect value is true and status goes from Stop to Start.
C19_Witness ==
    /\ trig.on
    /\ trig.last.kind = "tick"
    /\ trig.last.tracked = 0
    /\ ~trig.detect_any
    /\ trig.last.in_region = "True"
    /\ trig.last.enabled
    /\ trig.last.status = "Stop"
    /\ trig.last.after = "Start"
    /\ trig.status = "Start"

(***************************************************************************)
(* C20  A tick evaluation of one trigger's detect_event writes at most     *)
(* that trigger's own status: it leaves the trigger's enabled, the         *)
(* positions of the objects and the enabled and status of every other      *)
(* trigger as they were, and never sets status from Start back to Stop;    *)
(* the status of a trigger after its tick is a function of its own state   *)
(* and the positions, whatever the order the triggers are polled in.       *)
(***************************************************************************)
C20_TickFrame ==
    poll.on =>
        /\ poll.positions = poll.placed
        /\ \A n \in PollNames :
              IF \E k \in 1..Len(poll.polled) : poll.polled[k] = n
              THEN /\ poll.own[n].enabled = poll.start[n].enabled
                   /\ poll.start[n].status = "Start" =>
                         poll.own[n].status = "Start"
                   /\ poll.own[n].status =
                         IF /\ PollInRegion(n) = "True"
                            /\ poll.start[n].enabled
                         THEN "Start" ELSE poll.start[n].status
              ELSE poll.own[n] = poll.start[n]

\* Trigger 2 was polled first and is still active, trigger 1 was polled
\* after it and went from Stop to Start.
C20_Witness ==
    /\ poll.on
    /\ poll.polled = <<2, 1>>
    /\ poll.start[1].status = "Stop"
    /\ poll.own[1].status = "Start"
    /\ poll.start[2].status = "Start"
    /\ poll.own[2] = poll.start[2]

(***************************************************************************)
(* C21  Over any sequence of calls of generate_object_from_model and       *)
(* generate_material_from_image the import of a model file and the         *)
(* creation of the materials of an image file run to their end at most     *)
(* once for a filename: an entry of a cache is never removed or replaced,  *)
(* and after a call for a filename has returned every later call of the    *)
(* same function with that filename returns without importing or creating  *)
(* anything, a material call returning the cached material.                *)
(***************************************************************************)
C21_ImportedOnce ==
    [][assets.on =>
        LET a == assets'
        IN  /\ \A f \in Filenames :
                 /\ a.imports[f] <= 1
                 /\ a.creations[f] <= 1
            /\ \A f \in DOMAIN assets.models :
                 assets.has_models =>
                    /\ f \in DOMAIN a.models
                    /\ a.models[f] = assets.models[f]
            /\ \A f \in DOMAIN assets.materials :
                 assets.has_materials =>
                    /\ f \in DOMAIN a.materials
                    /\ a.materials[f] = assets.materials[f]
            /\ \A i, j \in 1..Len(a.returned) :
                 (/\ i < j
                  /\ a.returned[i].fn = a.returned[j].fn
                  /\ a.returned[i].filename = a.returned[j].filename
                  /\ a.returned[i].err = "none")
                 => /\ a.returned[j].err = "none"
                    /\ ~a.returned[j].made
                    /\ a.returned[j].fn = "material" =>
                         a.returned[j].value =
                            PickMaterial(a.materials[a.returned[j].filename],
                                         a.returned[j].double_sided)]_vars

\* A model file and an image file were each asked for twice; the second
\* calls were served from the caches.
C21_Witness ==
    /\ assets.on
    /\ \E i, j \in 1..Len(assets.returned) :
          /\ i < j
          /\ assets.returned[i].fn = "model"
          /\ assets.returned[j].fn = "model"
          /\ assets.returned[i].filename = assets.returned[j].filename
          /\ assets.returned[i].made
          /\ assets.returned[j].err = "none"
          /\ ~assets.returned[j].made

C23_RecordRoundTrip ==
    (xml.on /\ xml.kind = "record" /\ xml.stage = "read") =>
        /\ xml.back.err = "none"
        /\ xml.back.reset = xml.rec.reset
        /\ SameDict(xml.back.actions, xml.rec.actions)

(***************************************************************************)
(* C24  Every object generate_object_from_model returns is not the cached  *)
(* master of any filename and is not an object an earlier call returned,   *)
(* and it shares its data with neither.                                    *)
(***************************************************************************)
C24_ReturnsFreshObject ==
    assets.on =>
        \A i \in 1..Len(assets.returned) :
            (assets.returned[i].fn = "model" /\ assets.returned[i].err = "none")
            => /\ \A f \in DOMAIN assets.models :
                    /\ assets.returned[i].value # assets.models[f]
                    /\ assets.objects[assets.returned[i].value]
                          # assets.objects[assets.models[f]]
               /\ \A k \in 1..(i - 1) :
                    (/\ assets.returned[k].fn = "model"
                     /\ assets.returned[k].err = "none")
                    => assets.returned[i].value # assets.returned[k].value

(***************************************************************************)
(* C25  A call of generate_object_from_model or of                         *)
(* generate_material_from_image ends, whether the cache attribute is       *)
(* absent, the filename is missing from the cache or the filename is in    *)
(* it: it calls itself at most twice, the activation reached by the second *)
(* self-call returns, and no call has followed more than two self-calls    *)
(* when it returned or raised.                                             *)
(***************************************************************************)
C25_CallEnds ==
    assets.on =>
        /\ assets.depth <= 2
        /\ assets.pc = "again" => assets.depth < 2
        /\ \A i \in 1..Len(assets.returned) : assets.returned[i].depth <= 2

\* Calls have ended after two self-calls (the materials of an image, no
\* cache yet), after one (a model, no cache yet) and after none (a hit).
C25_Witness ==
    /\ assets.on
    /\ assets.pc = "idle"
    /\ \E i, j, k \in 1..Len(assets.returned) :
          /\ assets.returned[i].depth = 2
          /\ assets.returned[i].fn = "material"
          /\ assets.returned[j].depth = 1
          /\ assets.returned[j].fn = "model"
          /\ assets.returned[k].depth = 0
====
